---- MODULE Spec2Model ----
(***************************************************************************)
(* events-intercept: an event emitter whose emit detours through a chain   *)
(* of interceptors per event name (src/src/events-intercept.ts).           *)
(*                                                                         *)
(* The program is single threaded and synchronous; everything nests by     *)
(* call and return.  The model is a stack machine: `stack` is the call     *)
(* stack of the emitter's methods and of the caller's functions            *)
(* (interceptors, listeners) that are running, the other variables are     *)
(* the emitter's fields.  A caller issues a method call when the stack is  *)
(* empty; a function body issues its calls when its frame is on top.       *)
(* All JavaScript values are strings, so that they can be compared.        *)
(***************************************************************************)
EXTENDS Integers, Sequences, FiniteSets

VARIABLES
    stack,              \* the call stack, top last
    _interceptors,      \* the registry: <<[key, id]>> in key insertion order
    heap,               \* the interceptor arrays: id -> [items, warned]
    _events,            \* the Base Emitter's listener lists: name -> <<fn>>
    _maxInterceptors,   \* <<>> (undefined) or <<n>>
    patched,            \* how many times emit and listeners have been
                        \* wrapped by emitFactory and listenersFactory
    other,              \* another emitter of the Base Emitter's type: the
                        \* properties assigned on it (own) and its
                        \* listener lists (events)
    log,                \* what the current (or last) caller's call did
    rv,                 \* the value the last finished call returned or threw
    call,               \* the caller's current (or last) call, and the
                        \* interceptors and listeners it found
    registered,         \* history: key -> the functions registered when
                        \* the caller's call started, and those intercept
                        \* has registered since, less those
                        \* removeInterceptor was asked to remove since
    warnings            \* history: for the keys that have warned, the
                        \* leak warnings emitted for the key since it
                        \* last had no interceptors (now) and before
                        \* that (past)

vars ==
    <<stack, _interceptors, heap, _events, _maxInterceptors, patched, other,
      log, rv, call, registered, warnings>>

----------------------------------------------------------------------------
(* Bounds of the model.                                                    *)

MaxInterceptors == 2    \* interceptors the caller keeps registered, all keys
MaxListeners == 2       \* listeners the caller keeps registered, all events
MaxNestedListeners == 1 \* the same, where listeners call the emitter
MaxList == 3            \* interceptors registered at a time, by anybody
MaxDepth == 7           \* frames on the call stack
MaxArrays == 4          \* interceptor arrays referenced at a time
MaxLeakList == 12       \* interceptors in the one list of the leak scenario
MaxLifetimes == 2       \* warnings of earlier lists of a key that are counted
MaxPatched == 2         \* times the emitter is augmented, construction included

----------------------------------------------------------------------------
(* Values.                                                                 *)

defaultMaxInterceptors == 10

fakeFunction == "fakeFunction"

Undefined == "undefined"
NoErr == "null"
TypeError == "TypeError"
RangeError == "RangeError"
Unhandled == "ERR_UNHANDLED_ERROR"
This == "this"

\* The event names the engine itself emits or treats specially.
EventNames ==
    {"test", "newTest", "error", "newInterceptor", "removeInterceptor",
     "newListener", "removeListener"}

\* A symbol key and its string form: type.toString() of Symbol("sym").
Symbols == {"@@sym"}

ToString(type) == IF type \in Symbols THEN "Symbol(sym)" ELSE type

\* The event names: strings, among them the string forms of the symbols,
\* and symbols.
Keys == EventNames \cup Symbols \cup {ToString(k) : k \in Symbols}

\* The caller's functions.  Interceptors take (...args, next); listeners
\* take (...args).
Interceptors ==
    {"iRet", "iCont", "iErr", "iSilent", "iEmit", "iAgain", "iLeave",
     "iTwice"}
Listeners == {"spy", "spy2", "adder", "remover"}
Functions == Interceptors \cup Listeners \cup {fakeFunction}

Stmt(op, ret, type, fn) == [op |-> op, ret |-> ret, type |-> type, fn |-> fn]

\* The body of each function, as the calls it makes in order; ret says
\* that the function returns the value of that call.
Body(f) ==
    CASE f = "iRet" -> <<Stmt("next", TRUE, "", "")>>
      [] f = "iCont" -> <<Stmt("next", FALSE, "", "")>>
      [] f = "iErr" -> <<Stmt("nextErr", FALSE, "", "boom")>>
      [] f = "iEmit" -> <<Stmt("emitFirst", FALSE, "newTest", ""),
                          Stmt("next", FALSE, "", "")>>
      [] f = "iAgain" -> <<Stmt("emitFirst", FALSE, "test", ""),
                           Stmt("next", FALSE, "", "")>>
      [] f = "iLeave" -> <<Stmt("removeInterceptor", FALSE, "test", "iLeave"),
                           Stmt("next", FALSE, "", "")>>
      [] f = "iTwice" -> <<Stmt("next", FALSE, "", ""),
                           Stmt("next", FALSE, "", "")>>
      [] f = "adder" -> <<Stmt("intercept", FALSE, "test", "iCont")>>
      [] f = "remover" -> <<Stmt("removeInterceptor", FALSE, "test", "iCont")>>
      [] OTHER -> <<>>

\* What an interceptor hands to its continuation: its input, with its own
\* mark appended.
Out(f, args) == Append(args, f)

IsFunction(f) == f \in Functions

----------------------------------------------------------------------------
(* Frames, arrays, log entries.                                            *)

Frame(k, type, fn, args) ==
    [k |-> k, type |-> type, fn |-> fn, args |-> args,
     n |-> 0, list |-> 0, snap |-> <<>>, own |-> 0, void |-> FALSE, lvl |-> 0]

NoArray == [items |-> <<>>, warned |-> FALSE]

Entry(k, type, fn, args) == [k |-> k, type |-> type, fn |-> fn, args |-> args]

\* A removal at the front, whatever the position: splice(0, 1).
SeqRemoveFirst(s, i) == [j \in 1..(Len(s) - 1) |-> s[j + 1]]

SeqRemoveAt(s, i) == [j \in 1..(Len(s) - 1) |-> IF j < i THEN s[j] ELSE s[j + 1]]

\* A search from the front: what the loop of lines 78 to 83 would find if
\* it counted up.
FirstIndexOf(s, x) ==
    IF \E i \in 1..Len(s) : s[i] = x
    THEN CHOOSE i \in 1..Len(s) : s[i] = x /\ \A j \in 1..(i - 1) : s[j] # x
    ELSE 0

\* The last index of x in s, 0 when there is none.
LastIndexOf(s, x) ==
    IF \E i \in 1..Len(s) : s[i] = x
    THEN CHOOSE i \in 1..Len(s) : s[i] = x /\ \A j \in (i + 1)..Len(s) : s[j] # x
    ELSE 0

\* this._interceptors[key]: the id of the array, 0 when the key is absent.
Lookup(reg, key) ==
    IF \E i \in 1..Len(reg) : reg[i].key = key
    THEN reg[CHOOSE i \in 1..Len(reg) : reg[i].key = key].id
    ELSE 0

\* delete this._interceptors[key]
DeleteKey(reg, key) == SelectSeq(reg, LAMBDA e : e.key # key)

\* Object.getOwnPropertyNames(this._interceptors): the string keys.
OwnPropertyNames(reg) ==
    LET str == SelectSeq(reg, LAMBDA e : e.key \notin Symbols)
    IN [i \in 1..Len(str) |-> str[i].key]

Min(S) == CHOOSE x \in S : \A y \in S : x <= y

\* A test that lets every error pass: what line 39 would do as if (false).
NeverTruthy(v) == FALSE

\* if (err): null, undefined and the like are falsy.
Truthy(v) == v \notin {NoErr, Undefined, "", "false"}

----------------------------------------------------------------------------
(* The machine.  The operators below take the whole state as a record and  *)
(* return the state after the call has run up to the point where a         *)
(* function of the caller starts, or the call has returned.  ok = FALSE    *)
(* marks a state beyond the bounds, which no action takes.                 *)

S ==
    [stack |-> stack, reg |-> _interceptors, heap |-> heap, ev |-> _events,
     max |-> _maxInterceptors, lvl |-> patched, other |-> other, log |-> log,
     rv |-> rv, gh |-> registered, wn |-> warnings, ok |-> TRUE]

Top(s) == s.stack[Len(s.stack)]

Pop(s) == [s EXCEPT !.stack = SubSeq(@, 1, Len(@) - 1)]

Push(s, fr) ==
    IF Len(s.stack) >= MaxDepth
    THEN [s EXCEPT !.ok = FALSE]
    ELSE [s EXCEPT !.stack = Append(@, fr)]

Log(s, e) == [s EXCEPT !.log = Append(@, e)]

\* The warnings counted for a key.
WarningsOf(wn, k) ==
    IF \E e \in wn : e.key = k THEN CHOOSE e \in wn : e.key = k
    ELSE [key |-> k, past |-> 0, now |-> 0]

\* process.emitWarning, lines 23 to 27, for the list of type.
emitWarning(s, type) ==
    LET old == WarningsOf(s.wn, type)
    IN  [Log(s, Entry("warning", type, "", <<>>)) EXCEPT
            !.wn = (@ \ {old}) \cup {[old EXCEPT !.now = @ + 1]}]

\* An exception: nothing in the engine or in the Base Emitter catches, so
\* it unwinds every frame up to the caller.
Throw(s, e) == [s EXCEPT !.stack = <<>>, !.rv = e]

\* The arrays some key or some running frame refers to.
Referenced(s) ==
    {s.reg[i].id : i \in 1..Len(s.reg)} \cup
    {s.stack[i].list : i \in 1..Len(s.stack)}

\* A call returns v to the frame below.  An emit frame has nothing left to
\* do but to return what its chain returned (lines 55 and 58), or
\* undefined where its caller drops the value.
RECURSIVE Ret(_, _)
Ret(s, v) ==
    IF s.stack = <<>> THEN [s EXCEPT !.rv = v]
    ELSE IF Top(s).k = "emit"
    THEN Ret(Pop(s), IF Top(s).void THEN Undefined ELSE v)
    ELSE [s EXCEPT !.rv = v]

\* The Base Emitter's emit, from the listener after position n of the
\* snapshot on.  The shim's fakeFunction has an empty body: it is run in
\* place.
BaseAdvance(s) ==
    IF ~s.ok THEN s
    ELSE LET d == Len(s.stack)
             fr == s.stack[d]
             rest == {j \in (fr.n + 1)..Len(fr.snap) : fr.snap[j] # fakeFunction}
         IN  IF rest = {}
             THEN Ret(Pop(s), IF fr.void THEN Undefined ELSE "true")
             ELSE LET j == Min(rest)
                  IN  Push(Log([s EXCEPT !.stack[d].n = j],
                               Entry("listener", fr.type, fr.snap[j], fr.args)),
                           Frame("call", fr.type, fr.snap[j], fr.args))

\* The Base Emitter's emit(type, ...args): throws on an "error" nobody
\* listens to, returns false without listeners, else calls a snapshot of
\* the listeners in order and returns true.
BaseEmit(s, type, args, void) ==
    IF s.ev[type] = <<>>
    THEN IF type = "error" THEN Throw(s, Unhandled)
         ELSE Ret(s, IF void THEN Undefined ELSE "false")
    ELSE BaseAdvance(Push(s, [Frame("base", type, "", args) EXCEPT
                                  !.snap = s.ev[type], !.void = void]))

RECURSIVE emit(_, _, _, _), next(_, _, _, _), emitFactory(_, _, _, _, _)

\* superCall of the wrapper number lvl: the Base Emitter's emit for the
\* first wrapper (line 157, or line 176 on a plain emitter), the wrapper
\* before it for a later one (line 176 on an emitter already augmented).
superCall(s, lvl, type, args, void) ==
    IF lvl <= 1 THEN BaseEmit(s, type, args, void)
    ELSE emitFactory(s, lvl - 1, type, args, void)

\* A continuation that hands on the arguments of the emit instead of the
\* arguments it was called with: what lines 41 and 45 would do with args
\* for args1.
nextWithEmitArguments(s, own, err, args1) ==
    IF ~s.ok THEN s
    ELSE LET e == s.stack[own]
             interceptor == s.heap[e.list].items
             completed == e.n
         IN  IF Truthy(err) THEN emit(s, "error", <<err>>, TRUE)
             ELSE IF completed = Len(interceptor)
             THEN superCall(s, e.lvl, e.type, e.args, FALSE)
             ELSE IF completed + 1 > Len(interceptor)
             THEN Throw(s, TypeError)
             ELSE Push(Log([s EXCEPT !.stack[own].n = completed + 1],
                           Entry("interceptor", e.type,
                                 interceptor[completed + 1], e.args)),
                       [Frame("call", e.type, interceptor[completed + 1], e.args)
                            EXCEPT !.own = own])

\* const next = (err, ...args1) => ..., of the emit frame at position own.
next(s, own, err, args1) ==
    IF ~s.ok THEN s
    ELSE LET e == s.stack[own]
             interceptor == s.heap[e.list].items
             completed == e.n
         IN  IF Truthy(err) THEN emit(s, "error", <<err>>, TRUE)
             ELSE IF completed = Len(interceptor)
             THEN superCall(s, e.lvl, e.type, args1, FALSE)
             ELSE IF completed + 1 > Len(interceptor)
             THEN Throw(s, TypeError)
             ELSE Push(Log([s EXCEPT !.stack[own].n = completed + 1],
                           Entry("interceptor", e.type,
                                 interceptor[completed + 1], args1)),
                       [Frame("call", e.type, interceptor[completed + 1], args1)
                            EXCEPT !.own = own])

\* A pass-through that delegates without the arguments: what line 55 would
\* do as superCall.call(this, type).
emitFactoryWithoutArguments(s, lvl, type, args, void) ==
    LET s1 == Log(s, Entry("emit", type, "", args))
        id == Lookup(s.reg, ToString(type))
    IN  IF id = 0 THEN superCall(s1, lvl, type, <<>>, void)
        ELSE LET s2 == Push(s1, [Frame("emit", type, "", args) EXCEPT
                                     !.list = id, !.void = void, !.lvl = lvl])
             IN  next(s2, Len(s2.stack), NoErr, args)

\* A wrapper whose position is shared by its emissions and not reset:
\* what the code would do with completed declared outside the returned
\* function and without line 57.
emitFactoryWithoutReset(s, lvl, type, args, void) ==
    LET s1 == Log(s, Entry("emit", type, "", args))
        id == Lookup(s.reg, ToString(type))
        outer == {i \in 1..Len(s.stack) : s.stack[i].k = "emit"}
        completed == IF outer = {} THEN 0
                     ELSE s.stack[CHOOSE i \in outer : \A j \in outer : j <= i].n
    IN  IF id = 0 THEN superCall(s1, lvl, type, args, void)
        ELSE LET s2 == Push(s1, [Frame("emit", type, "", args) EXCEPT
                                     !.list = id, !.void = void, !.lvl = lvl,
                                     !.n = completed])
             IN  next(s2, Len(s2.stack), NoErr, args)

\* A wrapper that never looks at the registry: line 55 alone.
emitFactoryPassingThrough(s, lvl, type, args, void) ==
    superCall(Log(s, Entry("emit", type, "", args)), lvl, type, args, void)

\* The function emitFactory returns, as the wrapper number lvl of the
\* emitter; void says that the caller drops the returned value.
emitFactory(s, lvl, type, args, void) ==
    LET s1 == Log(s, Entry("emit", type, "", args))
        id == Lookup(s.reg, ToString(type))
    IN  IF id = 0 THEN superCall(s1, lvl, type, args, void)
        ELSE LET s2 == Push(s1, [Frame("emit", type, "", args) EXCEPT
                                     !.list = id, !.void = void, !.lvl = lvl])
             IN  next(s2, Len(s2.stack), NoErr, args)

\* this.emit(type, ...args): the outermost wrapper.
emit(s, type, args, void) == emitFactory(s, s.lvl, type, args, void)

\* The history of registrations, after a request to remove f: the most
\* recent registration of f, when there is one, is no longer counted.
Unregister(fs, f) ==
    IF \E i \in 1..Len(fs) : fs[i] = f
    THEN LET last == CHOOSE i \in 1..Len(fs) :
                        fs[i] = f /\ \A j \in 1..Len(fs) : fs[j] = f => j <= i
         IN  SubSeq(fs, 1, last - 1) \o SubSeq(fs, last + 1, Len(fs))
    ELSE fs

\* All interceptors registered, over all keys.
RECURSIVE Total(_, _)
Total(reg, h) ==
    IF reg = <<>> THEN 0 ELSE Len(h[Head(reg).id].items) + Total(Tail(reg), h)

\* A registration that appends before it emits: lines 12 and 13 before
\* line 10.
interceptAppendingFirst(s, type, interceptor) ==
    IF ~IsFunction(interceptor) THEN Throw(s, TypeError)
    ELSE LET id == Lookup(s.reg, type)
             free == (1..MaxArrays) \ Referenced(s)
             nid == IF id # 0 THEN id ELSE IF free = {} THEN 0 ELSE Min(free)
             s1 == [s EXCEPT
                       !.reg = IF id = 0
                               THEN Append(@, [key |-> type, id |-> nid])
                               ELSE @,
                       !.heap[nid].items = Append(@, interceptor)]
         IN  IF nid = 0 THEN [s EXCEPT !.ok = FALSE]
             ELSE emit(Push(s1, Frame("intercept", type, interceptor, <<>>)),
                       "newInterceptor", <<type, interceptor>>, TRUE)

\* intercept(type, interceptor), lines 8 to 10: up to the emission of
\* "newInterceptor".
intercept(s, type, interceptor) ==
    IF ~IsFunction(interceptor) THEN Throw(s, TypeError)
    ELSE emit(Push(s, Frame("intercept", type, interceptor, <<>>)),
              "newInterceptor", <<type, interceptor>>, TRUE)

\* An append that warns whenever the list is longer than the ceiling:
\* lines 18 to 28 without the test and the setting of warned.
interceptAppendWarningAgain(s, cap) ==
    LET fr == Top(s)
        id == Lookup(s.reg, fr.type)
        free == (1..MaxArrays) \ Referenced(s)
        nid == IF id # 0 THEN id ELSE IF free = {} THEN 0 ELSE Min(free)
        items == IF id = 0 THEN <<fr.fn>> ELSE Append(s.heap[id].items, fr.fn)
        m == IF s.max # <<>> THEN s.max[1] ELSE defaultMaxInterceptors
        warn == m > 0 /\ Len(items) > m
    IN  IF nid = 0 \/ Total(s.reg, s.heap) >= cap
        THEN [s EXCEPT !.ok = FALSE]
        ELSE LET s1 == [s EXCEPT
                           !.gh[fr.type] = Append(@, fr.fn),
                           !.reg = IF id = 0
                                   THEN Append(@, [key |-> fr.type, id |-> nid])
                                   ELSE @,
                           !.heap[nid] = [items |-> items, warned |-> FALSE]]
                 s2 == IF warn THEN emitWarning(s1, fr.type)
                       ELSE s1
             IN  Ret(Pop(s2), This)

\* intercept, lines 12 to 31: the emission has returned.  cap bounds the
\* interceptors registered at a time.
interceptAppendUpTo(s, cap) ==
    LET fr == Top(s)
        id == Lookup(s.reg, fr.type)
        free == (1..MaxArrays) \ Referenced(s)
        nid == IF id # 0 THEN id ELSE IF free = {} THEN 0 ELSE Min(free)
        items == IF id = 0 THEN <<fr.fn>> ELSE Append(s.heap[id].items, fr.fn)
        warned == id # 0 /\ s.heap[id].warned
        m == IF s.max # <<>> THEN s.max[1] ELSE defaultMaxInterceptors
        warn == ~warned /\ m > 0 /\ Len(items) > m
    IN  IF nid = 0 \/ Total(s.reg, s.heap) >= cap
        THEN [s EXCEPT !.ok = FALSE]
        ELSE LET s1 == [s EXCEPT
                           !.gh[fr.type] = Append(@, fr.fn),
                           !.reg = IF id = 0
                                   THEN Append(@, [key |-> fr.type, id |-> nid])
                                   ELSE @,
                           !.heap[nid] = [items |-> items,
                                          warned |-> warned \/ warn]]
                 s2 == IF warn THEN emitWarning(s1, fr.type)
                       ELSE s1
             IN  Ret(Pop(s2), This)

interceptAppend(s) == interceptAppendUpTo(s, MaxList)

\* A removal that always splices: what lines 87 and 88 would do without
\* the test of the length.
removeInterceptorAlwaysSplicing(s, type, interceptor) ==
    IF ~IsFunction(interceptor) THEN Throw(s, TypeError)
    ELSE LET id == Lookup(s.reg, type)
             list == s.heap[id].items
             position == LastIndexOf(list, interceptor)
             s0 == [s EXCEPT !.gh[type] = Unregister(@, interceptor)]
         IN  IF id = 0 THEN Ret(s0, This)
             ELSE IF position = 0 THEN Ret(s0, This)
             ELSE emit(Push([s0 EXCEPT !.heap[id].items =
                                           SeqRemoveAt(list, position)],
                            Frame("removeInterceptor", type, interceptor, <<>>)),
                       "removeInterceptor", <<type, interceptor>>, TRUE)

\* A removal that emits "removeInterceptor" also when it has found
\* nothing to remove: what the function would do without the returns of
\* lines 72 and 85.
removeInterceptorAlwaysEmitting(s, type, interceptor) ==
    IF ~IsFunction(interceptor) THEN Throw(s, TypeError)
    ELSE LET id == Lookup(s.reg, type)
             list == s.heap[id].items
             length == Len(list)
             position == IF id = 0 THEN 0 ELSE LastIndexOf(list, interceptor)
             s0 == [s EXCEPT !.gh[type] = Unregister(@, interceptor)]
             s1 == IF position = 0 THEN s0
                   ELSE IF length = 1
                   THEN [s0 EXCEPT !.reg = DeleteKey(@, type)]
                   ELSE [s0 EXCEPT !.heap[id].items = SeqRemoveAt(list, position)]
         IN  emit(Push(s1, Frame("removeInterceptor", type, interceptor, <<>>)),
                  "removeInterceptor", <<type, interceptor>>, TRUE)

\* A removal that replaces the list by a copy without the function: what
\* line 88 would do as this._interceptors[type] = list.filter(...), the
\* copy having no warned property.
removeInterceptorCopying(s, type, interceptor) ==
    IF ~IsFunction(interceptor) THEN Throw(s, TypeError)
    ELSE LET id == Lookup(s.reg, type)
             list == s.heap[id].items
             length == Len(list)
             position == LastIndexOf(list, interceptor)
             s0 == [s EXCEPT !.gh[type] = Unregister(@, interceptor)]
         IN  IF id = 0 THEN Ret(s0, This)
             ELSE IF position = 0 THEN Ret(s0, This)
             ELSE LET s1 == IF length = 1
                            THEN [s0 EXCEPT !.reg = DeleteKey(@, type)]
                            ELSE [s0 EXCEPT !.heap[id] =
                                     [items |-> SeqRemoveAt(list, position),
                                      warned |-> FALSE]]
                  IN  emit(Push(s1, Frame("removeInterceptor", type,
                                          interceptor, <<>>)),
                           "removeInterceptor", <<type, interceptor>>, TRUE)

\* removeInterceptor(type, interceptor), lines 68 to 90: up to the emission
\* of "removeInterceptor".
removeInterceptor(s, type, interceptor) ==
    IF ~IsFunction(interceptor) THEN Throw(s, TypeError)
    ELSE LET id == Lookup(s.reg, type)
             list == s.heap[id].items
             length == Len(list)
             position == LastIndexOf(list, interceptor)
             s0 == [s EXCEPT !.gh[type] = Unregister(@, interceptor)]
         IN  IF id = 0 THEN Ret(s0, This)
             ELSE IF position = 0 THEN Ret(s0, This)
             ELSE LET s1 == IF length = 1
                            THEN [s0 EXCEPT !.reg = DeleteKey(@, type)]
                            ELSE [s0 EXCEPT !.heap[id].items =
                                                SeqRemoveAt(list, position)]
                  IN  emit(Push(s1, Frame("removeInterceptor", type,
                                          interceptor, <<>>)),
                           "removeInterceptor", <<type, interceptor>>, TRUE)

\* removeAllInterceptors, lines 129 to 133 and 141 to 143: the guard, then
\* the loop of the branch taken is entered.  hasType is arguments.length > 0.
removeAllInterceptors(s, hasType, type) ==
    IF Len(OwnPropertyNames(s.reg)) = 0 THEN Ret(s, This)
    ELSE IF ~hasType
    THEN Push(s, [Frame("removeAll", "", "keys", <<>>) EXCEPT
                      !.snap = OwnPropertyNames(s.reg)])
    ELSE LET id == Lookup(s.reg, ToString(type))
         IN  IF id = 0 THEN Ret(s, This)
             ELSE Push(s, [Frame("removeAllOf", type, "", <<>>) EXCEPT
                               !.list = id, !.n = Len(s.heap[id].items)])

\* A clear of "removeInterceptor" alone: line 139 without the loop before
\* it and without the reset of line 140.
removeAllNextOfRemoveInterceptor(s) ==
    LET d == Len(s.stack)
        fr == s.stack[d]
    IN  IF fr.fn = "keys"
        THEN removeAllInterceptors([s EXCEPT !.stack[d].fn = "last"],
                                   TRUE, "removeInterceptor")
        ELSE Ret(Pop(s), This)

\* A for-in loop that takes "removeInterceptor" in its turn like any other
\* key: lines 134 to 140 without the test of line 135 and without line 139.
removeAllNextInOrder(s) ==
    LET d == Len(s.stack)
        fr == s.stack[d]
        rest == {j \in (fr.n + 1)..Len(fr.snap) : Lookup(s.reg, fr.snap[j]) # 0}
    IN  IF fr.fn = "keys" /\ rest # {}
        THEN removeAllInterceptors([s EXCEPT !.stack[d].n = Min(rest)],
                                   TRUE, fr.snap[Min(rest)])
        ELSE Ret(Pop([s EXCEPT !.reg = <<>>]), This)

\* removeAllInterceptors(), lines 134 to 140: the next key of the for-in
\* loop that is still a key and is not "removeInterceptor"; after the last
\* one "removeInterceptor" itself; then the registry is replaced.
removeAllNext(s) ==
    LET d == Len(s.stack)
        fr == s.stack[d]
        rest == {j \in (fr.n + 1)..Len(fr.snap) :
                    /\ Lookup(s.reg, fr.snap[j]) # 0
                    /\ fr.snap[j] # "removeInterceptor"}
    IN  IF fr.fn = "keys" /\ rest # {}
        THEN removeAllInterceptors([s EXCEPT !.stack[d].n = Min(rest)],
                                   TRUE, fr.snap[Min(rest)])
        ELSE IF fr.fn = "keys"
        THEN removeAllInterceptors([s EXCEPT !.stack[d].fn = "last"],
                                   TRUE, "removeInterceptor")
        ELSE Ret(Pop([s EXCEPT !.reg = <<>>]), This)

\* A loop that removes from the front: theseInterceptors[0] in each turn
\* of the loop of lines 146 to 148.
removeAllOfNextFromFront(s) ==
    LET d == Len(s.stack)
        fr == s.stack[d]
        theseInterceptors == s.heap[fr.list].items
    IN  IF fr.n = 0
        THEN Ret(Pop([s EXCEPT !.reg = DeleteKey(@, ToString(fr.type))]), This)
        ELSE removeInterceptor([s EXCEPT !.stack[d].n = fr.n - 1], fr.type,
                               IF theseInterceptors # <<>>
                               THEN theseInterceptors[1] ELSE Undefined)

\* A clear of one event that ends with the reset of the registry: line 140
\* in the place of line 150.
removeAllOfNextResetting(s) ==
    LET d == Len(s.stack)
        fr == s.stack[d]
        theseInterceptors == s.heap[fr.list].items
    IN  IF fr.n = 0
        THEN Ret(Pop([s EXCEPT !.reg = <<>>]), This)
        ELSE removeInterceptor([s EXCEPT !.stack[d].n = fr.n - 1], fr.type,
                               IF fr.n <= Len(theseInterceptors)
                               THEN theseInterceptors[fr.n] ELSE Undefined)

\* removeAllInterceptors(type), lines 146 to 150: one turn of the LIFO
\* loop over theseInterceptors (n is i + 1), then the delete.
removeAllOfNext(s) ==
    LET d == Len(s.stack)
        fr == s.stack[d]
        theseInterceptors == s.heap[fr.list].items
    IN  IF fr.n = 0
        THEN Ret(Pop([s EXCEPT !.reg = DeleteKey(@, ToString(fr.type))]), This)
        ELSE removeInterceptor([s EXCEPT !.stack[d].n = fr.n - 1], fr.type,
                               IF fr.n <= Len(theseInterceptors)
                               THEN theseInterceptors[fr.n] ELSE Undefined)

\* A test that lets negative numbers pass: line 119 without n < 0.
InvalidMaxUnsigned(n) == n.ty # "number" \/ n.nan

\* typeof n !== "number" || n < 0 || isNaN(n)
InvalidMax(n) == n.ty # "number" \/ (~n.nan /\ n.v < 0) \/ n.nan

\* setMaxInterceptors(n), lines 119 to 123.
setMaxInterceptors(s, n) ==
    IF InvalidMax(n) THEN Throw(s, TypeError)
    ELSE Ret([s EXCEPT !.max = <<n.v>>], This)

\* The Base Emitter's on(type, listener): "newListener" is emitted, while
\* somebody listens to it, before the listener is added.
on(s, type, listener) ==
    LET s1 == Push(s, Frame("on", type, listener, <<>>))
    IN  IF s.ev["newListener"] # <<>>
        THEN emit(s1, "newListener", <<type, listener>>, TRUE)
        ELSE s1

onAppend(s) ==
    LET fr == Top(s)
    IN  Ret(Pop([s EXCEPT !.ev[fr.type] = Append(@, fr.fn)]), This)

\* The Base Emitter's removeListener(type, listener): the last occurrence
\* is removed, then "removeListener" is emitted while somebody listens.
removeListener(s, type, listener) ==
    LET position == LastIndexOf(s.ev[type], listener)
        s1 == [s EXCEPT !.ev[type] = SeqRemoveAt(@, position)]
    IN  IF position = 0 THEN Ret(s, This)
        ELSE IF s1.ev["removeListener"] # <<>>
        THEN emit(Push(s1, Frame("removeListener", type, listener, <<>>)),
                  "removeListener", <<type, listener>>, TRUE)
        ELSE Ret(s1, This)

\* The properties monkeyPatch assigns, lines 179 to 185.
PatchedElements ==
    {"emit", "intercept", "interceptors", "removeInterceptor",
     "removeAllInterceptors", "setMaxInterceptors", "listeners"}

\* emit(type, ...args) on the other emitter, whose listeners have empty
\* bodies and run in place: the Base Emitter's emit, unless an emit
\* property has been assigned on it; the wrapper of emitFactory would
\* create the registry (line 49), find no interceptor and pass through.
otherEmit(s, type, args) ==
    LET s1 == IF "emit" \in s.other.own
              THEN [s EXCEPT !.other.own = @ \cup {"_interceptors"}]
              ELSE s
        ls == s1.other.events[type]
        s2 == [s1 EXCEPT !.log = @ \o [i \in 1..Len(ls) |->
                                          Entry("listener", type, ls[i], args)]]
    IN  IF ls = <<>>
        THEN IF type = "error" THEN Throw(s1, Unhandled) ELSE Ret(s1, "false")
        ELSE Ret(s2, "true")

\* on(type, listener) on the other emitter.
otherOn(s, type, listener) ==
    LET s1 == IF s.other.events["newListener"] # <<>>
              THEN otherEmit(s, "newListener", <<type, listener>>)
              ELSE s
    IN  Ret([s1 EXCEPT !.other.events[type] = Append(@, listener)], This)

\* listeners(type) on the other emitter: the Base Emitter's, unless a
\* listeners property has been assigned on it.
otherListeners(type) ==
    IF "listeners" \in other.own /\ type \in {"newListener", "removeListener"}
    THEN SelectSeq(other.events[type], LAMBDA f : f # fakeFunction)
    ELSE other.events[type]

\* A patch of every emitter of the type: the assignments of lines 179 to
\* 185 and fixListeners for the other emitter as well.
monkeyPatchEveryEmitter(s) ==
    LET s0 == [s EXCEPT !.other.own = @ \cup PatchedElements,
                        !.other.events["newListener"] = Append(@, fakeFunction),
                        !.other.events["removeListener"] = Append(@, fakeFunction)]
        s1 == Push([s0 EXCEPT !.lvl = @ + 1],
                   [Frame("fixListeners", "", "", <<>>) EXCEPT !.n = 1])
    IN  IF ~s1.ok THEN s1 ELSE on(s1, "newListener", fakeFunction)

\* A patch that seeds the state: this._interceptors = {} and
\* this._maxInterceptors = undefined among the assignments of lines 179
\* to 185.
monkeyPatchSeeding(s) ==
    LET s1 == Push([s EXCEPT !.lvl = @ + 1, !.reg = <<>>, !.max = <<>>],
                   [Frame("fixListeners", "", "", <<>>) EXCEPT !.n = 1])
    IN  IF ~s1.ok THEN s1 ELSE on(s1, "newListener", fakeFunction)

\* monkeyPatch(emitter) on this emitter, lines 175 to 187: emit and
\* listeners are wrapped once more, the five operations are assigned
\* again, and fixListeners runs; _interceptors and _maxInterceptors are
\* not assigned.
monkeyPatch(s) ==
    LET s1 == Push([s EXCEPT !.lvl = @ + 1],
                   [Frame("fixListeners", "", "", <<>>) EXCEPT !.n = 1])
    IN  IF ~s1.ok THEN s1 ELSE on(s1, "newListener", fakeFunction)

\* fixListeners, lines 114 and 115: the second on, then the return of
\* monkeyPatch (line 187).
fixListeners(s) ==
    LET d == Len(s.stack)
    IN  IF s.stack[d].n = 1
        THEN on([s EXCEPT !.stack[d].n = 2], "removeListener", fakeFunction)
        ELSE Ret(Pop(s), This)

\* One statement of a function body.
Exec(s, fr, st) ==
    CASE st.op = "next" ->
            IF fr.own = 0 THEN Throw(s, TypeError)
            ELSE next(s, fr.own, NoErr, Out(fr.fn, fr.args))
      [] st.op = "nextErr" ->
            IF fr.own = 0 THEN Throw(s, TypeError)
            ELSE next(s, fr.own, st.fn, <<>>)
      [] st.op = "emit" -> emit(s, st.type, <<fr.fn>>, FALSE)
      [] st.op = "emitFirst" ->
            IF fr.args[1] = "value" THEN emit(s, st.type, <<fr.fn>>, FALSE)
            ELSE s
      [] st.op = "intercept" -> intercept(s, st.type, st.fn)
      [] st.op = "removeInterceptor" -> removeInterceptor(s, st.type, st.fn)
      [] st.op = "removeAllInterceptors" -> removeAllInterceptors(s, FALSE, "")
      [] OTHER -> s

\* A function of the caller runs on: it returns the value of the call it
\* made, or makes its next call, or returns undefined at its end.
FunctionStep(s) ==
    LET d == Len(s.stack)
        fr == s.stack[d]
        body == Body(fr.fn)
    IN  IF fr.n > 0 /\ body[fr.n].ret THEN Ret(Pop(s), s.rv)
        ELSE IF fr.n = Len(body) THEN Ret(Pop(s), Undefined)
        ELSE Exec([s EXCEPT !.stack[d].n = fr.n + 1], fr, body[fr.n + 1])

\* Arrays have no name of their own: unreferenced ones are dropped, and
\* between two calls of the caller they are numbered in key order.
Canon(s) ==
    IF s.stack = <<>>
    THEN [s EXCEPT
             !.reg = [i \in 1..Len(s.reg) |-> [key |-> s.reg[i].key, id |-> i]],
             !.heap = [i \in 1..MaxArrays |->
                          IF i <= Len(s.reg) THEN s.heap[s.reg[i].id]
                          ELSE NoArray]]
    ELSE [s EXCEPT !.heap = [i \in 1..MaxArrays |->
                                IF i \in Referenced(s) THEN s.heap[i]
                                ELSE NoArray]]

Set(s) ==
    /\ s.ok
    /\ LET c == Canon(s)
       IN  /\ stack' = c.stack
           /\ _interceptors' = c.reg
           /\ heap' = c.heap
           /\ _events' = c.ev
           /\ _maxInterceptors' = c.max
           /\ patched' = c.lvl
           /\ other' = c.other
           /\ log' = c.log
           /\ rv' = c.rv
           /\ registered' = c.gh
           /\ warnings' = {IF Lookup(c.reg, e.key) # 0 THEN e
                            ELSE [key |-> e.key,
                                  past |-> Min({e.past + e.now, MaxLifetimes}),
                                  now |-> 0] : e \in c.wn}

\* interceptors(type), line 64: a copy of the list.
interceptors(type) ==
    IF Lookup(_interceptors, type) = 0 THEN <<>>
    ELSE heap[Lookup(_interceptors, type)].items

\* A filter for "newListener" alone: line 100 without its second test.
listenersFactoryOfNewListener(lvl, type) ==
    LET superListeners == _events[type]
        found == {i \in 1..Len(superListeners) : superListeners[i] = fakeFunction}
    IN  IF type = "newListener" /\ found # {}
        THEN SelectSeq(superListeners, LAMBDA f : f # fakeFunction)
        ELSE superListeners

\* The function listenersFactory returns, as the wrapper number lvl: the
\* list superCall returns (the Base Emitter's, or the wrapper's before
\* it), for the two lifecycle names without the first fakeFunction.
RECURSIVE listenersFactory(_, _)
listenersFactory(lvl, type) ==
    LET superListeners == IF lvl <= 1 THEN _events[type]
                          ELSE listenersFactory(lvl - 1, type)
        found == {i \in 1..Len(superListeners) : superListeners[i] = fakeFunction}
    IN  IF type \in {"newListener", "removeListener"} /\ found # {}
        THEN SeqRemoveAt(superListeners, Min(found))
        ELSE superListeners

\* this.listeners(type): the outermost wrapper.
listeners(type) == listenersFactory(patched, type)

\* The listeners of an event that the caller registered; none for a call
\* that names no event.
CallerListenersOf(type) ==
    IF type \in DOMAIN _events THEN listeners(type) ELSE <<>>

RECURSIVE SumLen(_, _)
SumLen(f, D) ==
    IF D = {} THEN 0
    ELSE LET k == CHOOSE x \in D : TRUE IN Len(f[k]) + SumLen(f, D \ {k})

CallerListeners == SumLen([k \in DOMAIN _events |-> CallerListenersOf(k)],
                          DOMAIN _events)

Running(k) == stack # <<>> /\ stack[Len(stack)].k = k

----------------------------------------------------------------------------
(* What the caller calls with: a world names the keys it registers         *)
(* interceptors under, the events it emits and listens to, the functions   *)
(* and ceilings it passes, and how much it keeps registered.               *)

NotAFunction == "not a function"
CallArgs == <<"value">>

Num(v) == [ty |-> "number", nan |-> FALSE, v |-> v]
NaN == [ty |-> "number", nan |-> TRUE, v |-> 0]
NotANumber == [ty |-> "string", nan |-> FALSE, v |-> 0]

\* How the caller would write n.
Show(n) ==
    IF n.ty # "number" THEN "'1'"
    ELSE IF n.nan THEN "NaN"
    ELSE IF n.v < 0 THEN "-1"
    ELSE "1"

\* Chains on one event and their errors.
ChainWorld ==
    [keys |-> {"test"},
     emits |-> {"test", "error", "newListener"},
     onKeys |-> {"test", "error"},
     interceptors |-> {"iRet", "iCont", "iErr"},
     listeners |-> {"spy", "spy2"},
     max |-> {NaN},
     capI |-> MaxInterceptors, capL |-> MaxListeners]

\* The registry and its bookkeeping events, with listeners that register
\* and remove interceptors themselves.
RegistryWorld ==
    [keys |-> {"test", "newInterceptor", "removeInterceptor"},
     emits |-> {"test"},
     onKeys |-> {"newInterceptor", "removeInterceptor"},
     interceptors |-> {"iCont", "iSilent"},
     listeners |-> {"adder", "remover"},
     max |-> {NaN},
     capI |-> MaxInterceptors, capL |-> MaxNestedListeners]

\* One list, long enough for a function to be registered twice around
\* another one.
ListWorld ==
    [keys |-> {"test"},
     emits |-> {"test"},
     onKeys |-> {"removeInterceptor"},
     interceptors |-> {"iCont", "iSilent"},
     listeners |-> {"spy"},
     max |-> {Num(1), Num(-1), NaN, NotANumber},
     capI |-> MaxList, capL |-> MaxNestedListeners]

\* A symbol and the string that is its string form as event names.
SymbolWorld ==
    [keys |-> {"@@sym", "Symbol(sym)"},
     emits |-> {"@@sym", "Symbol(sym)"},
     onKeys |-> {"@@sym", "removeInterceptor"},
     interceptors |-> {"iCont", "iSilent"},
     listeners |-> {"spy"},
     max |-> {NaN},
     capI |-> MaxInterceptors, capL |-> MaxNestedListeners]

\* The leak scenario: one function registered again and again for one
\* event, under a ceiling chosen before the first registration.
LeakWorld ==
    [keys |-> {"test"},
     emits |-> {"test"},
     onKeys |-> {},
     interceptors |-> {"iCont"},
     listeners |-> {},
     max |-> {Num(0), Num(1), Num(2), Num(MaxLeakList - 1)},
     capI |-> MaxLeakList, capL |-> 0]

\* Some events with interceptors, the "removeInterceptor" event among
\* them, and a listener for the removal of an interceptor: what
\* removeAllInterceptors() has to get through.
ClearWorld ==
    [keys |-> {"test", "newInterceptor", "removeInterceptor"},
     emits |-> {"test"},
     onKeys |-> {"removeInterceptor"},
     interceptors |-> {"iCont", "iSilent"},
     listeners |-> {"spy"},
     max |-> {NaN},
     capI |-> MaxList, capL |-> MaxNestedListeners]

\* A registry and a ceiling, on an emitter that may be patched again.
PatchWorld ==
    [keys |-> {"test", "newListener"},
     emits |-> {"test"},
     onKeys |-> {"newListener"},
     interceptors |-> {"iCont", "iSilent"},
     listeners |-> {"spy"},
     max |-> {Num(1)},
     capI |-> MaxInterceptors, capL |-> MaxNestedListeners]

\* Listeners of the lifecycle events and of another event, on an emitter
\* that may be patched again.
ShimWorld ==
    [keys |-> {"newListener"},
     emits |-> {"test"},
     onKeys |-> {"test", "newListener", "removeListener"},
     interceptors |-> {"iCont"},
     listeners |-> {"spy", "spy2"},
     max |-> {NaN},
     capI |-> MaxNestedListeners, capL |-> MaxListeners]

\* Interceptors of the lifecycle events, and listeners that come and go.
LifecycleWorld ==
    [keys |-> {"newListener", "removeListener"},
     emits |-> {"test"},
     onKeys |-> {"test", "newListener", "removeListener"},
     interceptors |-> {"iCont", "iSilent"},
     listeners |-> {"spy"},
     max |-> {NaN},
     capI |-> MaxInterceptors, capL |-> MaxListeners]

\* An emitter with an interceptor, patched again, beside another emitter
\* of the Base Emitter's type with listeners of its own.
OtherWorld ==
    [keys |-> {"test"},
     emits |-> {"test"},
     onKeys |-> {"test", "newListener"},
     interceptors |-> {"iCont", "iSilent"},
     listeners |-> {"spy"},
     max |-> {Num(1)},
     capI |-> MaxNestedListeners, capL |-> MaxNestedListeners]

\* Chains with interceptors that never call their continuation, and
\* listeners of the event and of "error".
SilenceWorld ==
    [keys |-> {"test"},
     emits |-> {"test"},
     onKeys |-> {"test", "error"},
     interceptors |-> {"iRet", "iCont", "iSilent"},
     listeners |-> {"spy"},
     max |-> {NaN},
     capI |-> MaxList, capL |-> MaxListeners]

\* Interceptors that emit from inside the chain, for another event or for
\* their own, and then continue.
ReentryWorld ==
    [keys |-> {"test", "newTest"},
     emits |-> {"test"},
     onKeys |-> {"test", "newTest"},
     interceptors |-> {"iCont", "iEmit", "iAgain"},
     listeners |-> {"spy"},
     max |-> {NaN},
     capI |-> MaxList, capL |-> MaxListeners]

\* One list that grows beyond its ceiling, shrinks, is emptied and grows
\* again, while the ceiling changes.
WarnedWorld ==
    [keys |-> {"test"},
     emits |-> {},
     onKeys |-> {},
     interceptors |-> {"iCont", "iSilent"},
     listeners |-> {},
     max |-> {Num(1), Num(2)},
     capI |-> MaxList, capL |-> 0]

\* A chain with an interceptor that removes itself and then continues.
LeaveWorld ==
    [keys |-> {"test"},
     emits |-> {"test"},
     onKeys |-> {"test"},
     interceptors |-> {"iCont", "iLeave"},
     listeners |-> {"spy"},
     max |-> {NaN},
     capI |-> MaxList, capL |-> MaxNestedListeners]

\* A chain with an interceptor that calls its continuation twice.
TwiceWorld ==
    [keys |-> {"test"},
     emits |-> {"test"},
     onKeys |-> {"test"},
     interceptors |-> {"iCont", "iTwice"},
     listeners |-> {"spy"},
     max |-> {NaN},
     capI |-> MaxList, capL |-> MaxNestedListeners]

\* Interceptors of an event and of "error" that continue or pass an
\* error, and a listener; none of them emits or touches the registry.
ErrorWorld ==
    [keys |-> {"error"},
     emits |-> {"test", "error"},
     onKeys |-> {"error"},
     interceptors |-> {"iCont", "iErr"},
     listeners |-> {"spy"},
     max |-> {NaN},
     capI |-> MaxInterceptors, capL |-> MaxListeners]

\* An emitter that is patched again, with a chain, and listeners of the
\* event and of "newListener".
RepatchWorld ==
    [keys |-> {"test"},
     emits |-> {"test"},
     onKeys |-> {"test", "newListener"},
     interceptors |-> {"iCont"},
     listeners |-> {"spy"},
     max |-> {NaN},
     capI |-> MaxInterceptors, capL |-> MaxListeners]

\* A list that is cleared while a listener of "removeInterceptor"
\* registers or removes interceptors of it.
MutatingWorld ==
    [keys |-> {"test"},
     emits |-> {},
     onKeys |-> {"removeInterceptor"},
     interceptors |-> {"iCont", "iSilent"},
     listeners |-> {"adder", "remover"},
     max |-> {NaN},
     capI |-> MaxList, capL |-> MaxNestedListeners]

\* The event a call emits first.
FirstEmit(op, type) ==
    CASE op = "intercept" -> "newInterceptor"
      [] op = "patch" -> "newListener"
      [] op \in {"removeInterceptor", "removeAllInterceptors"} -> "removeInterceptor"
      [] op = "on" -> "newListener"
      [] op = "removeListener" -> "removeListener"
      [] OTHER -> type

\* The registry as the caller sees it: the keys in the order of their
\* insertion, each with its list.
Registry ==
    [i \in 1..Len(_interceptors) |->
        [key |-> _interceptors[i].key, list |-> interceptors(_interceptors[i].key)]]

\* The caller starts a new call: the log starts anew, the history starts
\* from the lists as they are now, and the call is noted with the
\* interceptors of its own event (list) and with the interceptors (chain)
\* and the caller's listeners (lsn) of the event it emits first, with the
\* caller's listeners of its own event (had), a
\* removeAllInterceptors() also with the whole registry (all).
Fresh ==
    [S EXCEPT !.log = <<>>, !.rv = Undefined,
              !.gh = [k \in Keys |-> interceptors(k)]]

Note(op, type, fn) ==
    call' = [op |-> op, type |-> type, fn |-> fn,
             list |-> interceptors(type),
             chain |-> interceptors(FirstEmit(op, type)),
             lsn |-> CallerListenersOf(FirstEmit(op, type)),
             had |-> CallerListenersOf(type),
             all |-> IF op = "removeAllInterceptors" /\ fn = ""
                     THEN Registry ELSE <<>>]

----------------------------------------------------------------------------
(* The actions.                                                            *)

CallIntercept(W) ==
    \E type \in W.keys, f \in W.interceptors \cup {NotAFunction} :
        /\ stack = <<>>
        /\ Total(_interceptors, heap) < W.capI
        /\ Set(intercept(Fresh, type, f))
        /\ Note("intercept", type, f)

CallRemoveInterceptor(W) ==
    \E type \in W.keys, f \in W.interceptors \cup {NotAFunction} :
        /\ stack = <<>>
        /\ Set(removeInterceptor(Fresh, type, f))
        /\ Note("removeInterceptor", type, f)

CallRemoveAllInterceptors(W) ==
    /\ stack = <<>>
    /\ \/ /\ Set(removeAllInterceptors(Fresh, FALSE, ""))
          /\ Note("removeAllInterceptors", "", "")
       \/ \E type \in W.keys :
            /\ Set(removeAllInterceptors(Fresh, TRUE, type))
            /\ Note("removeAllInterceptors", type, "type")

CallSetMaxInterceptors(W) ==
    \E n \in W.max :
        /\ stack = <<>>
        /\ Set(setMaxInterceptors(Fresh, n))
        /\ Note("setMaxInterceptors", "", Show(n))

CallEmit(W) ==
    \E type \in W.emits :
        /\ stack = <<>>
        /\ Set(emit(Fresh, type, CallArgs, FALSE))
        /\ Note("emit", type, "")

CallOn(W) ==
    \E type \in W.onKeys, l \in W.listeners :
        /\ stack = <<>>
        /\ CallerListeners < W.capL
        /\ Set(on(Fresh, type, l))
        /\ Note("on", type, l)

CallRemoveListener(W) ==
    \E type \in W.onKeys, l \in W.listeners :
        /\ stack = <<>>
        /\ Set(removeListener(Fresh, type, l))
        /\ Note("removeListener", type, l)

\* patch(emitter) on the emitter itself.
CallPatch ==
    /\ stack = <<>>
    /\ patched < MaxPatched
    /\ Set(monkeyPatch(Fresh))
    /\ Note("patch", "", "")

\* The caller's calls on the other emitter, noted with the interceptors
\* this emitter has for the event, and with the other emitter's listeners.
NoteOther(op, type, fn) ==
    call' = [op |-> op, type |-> type, fn |-> fn,
             list |-> <<>>,
             chain |-> interceptors(type),
             lsn |-> other.events[type],
             had |-> <<>>,
             all |-> <<>>]

CallOtherOn(W) ==
    \E type \in W.onKeys, l \in W.listeners :
        /\ stack = <<>>
        /\ SumLen(other.events, DOMAIN other.events) < W.capL
        /\ Set(otherOn(Fresh, type, l))
        /\ NoteOther("other.on", type, l)

CallOtherEmit(W) ==
    \E type \in W.emits \cup W.onKeys :
        /\ stack = <<>>
        /\ Set(otherEmit(Fresh, type, CallArgs))
        /\ NoteOther("other.emit", type, "")

StepFixListeners == Running("fixListeners") /\ Set(fixListeners(S)) /\ UNCHANGED call

StepFunction == Running("call") /\ Set(FunctionStep(S)) /\ UNCHANGED call

\* The call a function is about to make does not fit on the call stack:
\* the runtime throws a RangeError from it, which nothing catches.
StepStackOverflow ==
    /\ Running("call")
    /\ ~FunctionStep(S).ok
    /\ Set(Throw(S, RangeError))
    /\ UNCHANGED call

StepBase == Running("base") /\ Set(BaseAdvance(S)) /\ UNCHANGED call

StepIntercept == Running("intercept") /\ Set(interceptAppend(S)) /\ UNCHANGED call

StepRemoveInterceptor ==
    Running("removeInterceptor") /\ Set(Ret(Pop(S), This)) /\ UNCHANGED call

StepRemoveAll == Running("removeAll") /\ Set(removeAllNext(S)) /\ UNCHANGED call

StepRemoveAllOf == Running("removeAllOf") /\ Set(removeAllOfNext(S)) /\ UNCHANGED call

StepOn == Running("on") /\ Set(onAppend(S)) /\ UNCHANGED call

StepRemoveListener ==
    Running("removeListener") /\ Set(Ret(Pop(S), This)) /\ UNCHANGED call

\* The steps and calls of the leak scenario.
StepInterceptLeak ==
    /\ Running("intercept")
    /\ Set(interceptAppendUpTo(S, MaxLeakList))
    /\ UNCHANGED call

CallSetMaxInterceptorsFirst(W) ==
    _interceptors = <<>> /\ CallSetMaxInterceptors(W)

\* A construction without the shim: line 170 left out.
InitWithoutFixListeners ==
    /\ stack = <<>>
    /\ _interceptors = <<>>
    /\ heap = [i \in 1..MaxArrays |-> NoArray]
    /\ _events = [k \in Keys \cup {ToString(k) : k \in Keys} |-> <<>>]
    /\ _maxInterceptors = <<>>
    /\ patched = 1
    /\ other = [own |-> {},
                events |-> [k \in Keys \cup {ToString(k) : k \in Keys} |-> <<>>]]
    /\ log = <<>>
    /\ rv = Undefined
    /\ call = [op |-> "new", type |-> "", fn |-> "", list |-> <<>>,
               chain |-> <<>>, lsn |-> <<>>, had |-> <<>>,
               all |-> <<>>]
    /\ registered = [k \in Keys |-> <<>>]
    /\ warnings = {}

\* The state after construction or patch: the registry is an empty object
\* (emit has run once), the shim listens to the two lifecycle events.
Init ==
    /\ stack = <<>>
    /\ _interceptors = <<>>
    /\ heap = [i \in 1..MaxArrays |-> NoArray]
    /\ _events = [k \in Keys \cup {ToString(k) : k \in Keys} |->
                     IF k \in {"newListener", "removeListener"}
                     THEN <<fakeFunction>> ELSE <<>>]
    /\ _maxInterceptors = <<>>
    /\ patched = 1
    /\ other = [own |-> {},
                events |-> [k \in Keys \cup {ToString(k) : k \in Keys} |-> <<>>]]
    /\ log = <<>>
    /\ rv = Undefined
    /\ call = [op |-> "new", type |-> "", fn |-> "", list |-> <<>>,
               chain |-> <<>>, lsn |-> <<>>, had |-> <<>>,
               all |-> <<>>]
    /\ registered = [k \in Keys |-> <<>>]
    /\ warnings = {}

\* The calls and steps that remove one interceptor at a time.
CallSingle(W) ==
    \/ CallIntercept(W)
    \/ CallRemoveInterceptor(W)
    \/ CallSetMaxInterceptors(W)
    \/ CallEmit(W)
    \/ CallOn(W)
    \/ CallRemoveListener(W)

StepSingle ==
    \/ StepFunction
    \/ StepBase
    \/ StepIntercept
    \/ StepRemoveInterceptor
    \/ StepOn
    \/ StepRemoveListener

Call(W) == CallSingle(W) \/ CallRemoveAllInterceptors(W)

Step == StepSingle \/ StepRemoveAll \/ StepRemoveAllOf

Next == Call(ChainWorld) \/ Step

\* The caller registers and removes interceptors, clears the registry, and
\* registers listeners that change the registry themselves.
NextRegistry ==
    \/ CallIntercept(RegistryWorld)
    \/ CallRemoveInterceptor(RegistryWorld)
    \/ CallRemoveAllInterceptors(RegistryWorld)
    \/ CallOn(RegistryWorld)
    \/ StepFunction
    \/ StepBase
    \/ StepIntercept
    \/ StepRemoveInterceptor
    \/ StepRemoveAll
    \/ StepRemoveAllOf
    \/ StepOn

\* The same without the clearing of the registry.
NextSingle ==
    \/ CallIntercept(RegistryWorld)
    \/ CallRemoveInterceptor(RegistryWorld)
    \/ CallOn(RegistryWorld)
    \/ StepFunction
    \/ StepBase
    \/ StepIntercept
    \/ StepRemoveInterceptor
    \/ StepOn

NextList == Call(ListWorld) \/ Step

NextSymbol == Call(SymbolWorld) \/ Step

\* The caller registers interceptors and listeners, and clears.
NextClear ==
    \/ CallIntercept(ClearWorld)
    \/ CallOn(ClearWorld)
    \/ CallRemoveAllInterceptors(ClearWorld)
    \/ StepFunction
    \/ StepBase
    \/ StepIntercept
    \/ StepRemoveInterceptor
    \/ StepRemoveAll
    \/ StepRemoveAllOf
    \/ StepOn

NextLeak ==
    \/ CallSetMaxInterceptorsFirst(LeakWorld)
    \/ CallIntercept(LeakWorld)
    \/ StepInterceptLeak

Spec == Init /\ [][Next]_vars

SpecSymbol == Init /\ [][NextSymbol]_vars

SpecClear == Init /\ [][NextClear]_vars

\* The caller fills the registry, sets the ceiling, listens, emits, and
\* patches the emitter again.
NextPatch ==
    \/ CallPatch
    \/ CallIntercept(PatchWorld)
    \/ CallSetMaxInterceptors(PatchWorld)
    \/ CallOn(PatchWorld)
    \/ CallEmit(PatchWorld)
    \/ StepFixListeners
    \/ StepFunction
    \/ StepBase
    \/ StepIntercept
    \/ StepOn

SpecPatch == Init /\ [][NextPatch]_vars

\* The caller builds a chain, listens and emits.
NextSilence ==
    \/ CallIntercept(SilenceWorld)
    \/ CallOn(SilenceWorld)
    \/ CallEmit(SilenceWorld)
    \/ StepFunction
    \/ StepBase
    \/ StepIntercept
    \/ StepOn

SpecSilence == Init /\ [][NextSilence]_vars

\* The caller builds chains for two events, listens and emits.
NextReentry ==
    \/ CallIntercept(ReentryWorld)
    \/ CallOn(ReentryWorld)
    \/ CallEmit(ReentryWorld)
    \/ StepFunction
    \/ StepBase
    \/ StepIntercept
    \/ StepOn

SpecReentry == Init /\ [][NextReentry]_vars

\* The caller registers, removes and moves the ceiling, in any order.
NextWarned ==
    \/ CallIntercept(WarnedWorld)
    \/ CallRemoveInterceptor(WarnedWorld)
    \/ CallSetMaxInterceptors(WarnedWorld)
    \/ StepIntercept
    \/ StepRemoveInterceptor

SpecWarned == Init /\ [][NextWarned]_vars

\* The caller builds a chain, listens and emits; the chain shrinks while
\* it runs.
NextLeave ==
    \/ CallIntercept(LeaveWorld)
    \/ CallOn(LeaveWorld)
    \/ CallEmit(LeaveWorld)
    \/ StepFunction
    \/ StepBase
    \/ StepIntercept
    \/ StepRemoveInterceptor
    \/ StepOn

SpecLeave == Init /\ [][NextLeave]_vars

\* The caller builds a chain, listens and emits.
NextTwice ==
    \/ CallIntercept(TwiceWorld)
    \/ CallOn(TwiceWorld)
    \/ CallEmit(TwiceWorld)
    \/ StepFunction
    \/ StepBase
    \/ StepIntercept
    \/ StepOn

SpecTwice == Init /\ [][NextTwice]_vars

\* The caller builds chains for an event and for "error", listens and
\* emits.
NextErrors ==
    \/ CallIntercept(ErrorWorld)
    \/ CallOn(ErrorWorld)
    \/ CallEmit(ErrorWorld)
    \/ StepFunction
    \/ StepStackOverflow
    \/ StepBase
    \/ StepIntercept
    \/ StepOn

\* The program is synchronous: a call that has started runs on whenever it
\* can.
RunsOn ==
    StepFunction \/ StepStackOverflow \/ StepBase \/ StepIntercept \/ StepOn

SpecErrors == Init /\ [][NextErrors]_vars /\ WF_vars(RunsOn)

\* The caller patches the emitter again, builds a chain, listens and
\* emits.
NextRepatch ==
    \/ CallPatch
    \/ CallIntercept(RepatchWorld)
    \/ CallOn(RepatchWorld)
    \/ CallEmit(RepatchWorld)
    \/ StepFixListeners
    \/ StepFunction
    \/ StepBase
    \/ StepIntercept
    \/ StepOn

SpecRepatch == Init /\ [][NextRepatch]_vars

\* The caller registers interceptors and a listener, and clears.
NextMutating ==
    \/ CallIntercept(MutatingWorld)
    \/ CallOn(MutatingWorld)
    \/ CallRemoveAllInterceptors(MutatingWorld)
    \/ StepFunction
    \/ StepBase
    \/ StepIntercept
    \/ StepRemoveInterceptor
    \/ StepRemoveAll
    \/ StepRemoveAllOf
    \/ StepOn

SpecMutating == Init /\ [][NextMutating]_vars

NextOther ==
    \/ CallPatch
    \/ CallIntercept(OtherWorld)
    \/ CallOn(OtherWorld)
    \/ CallEmit(OtherWorld)
    \/ CallOtherOn(OtherWorld)
    \/ CallOtherEmit(OtherWorld)
    \/ StepFixListeners
    \/ StepFunction
    \/ StepBase
    \/ StepIntercept
    \/ StepOn

SpecOther == Init /\ [][NextOther]_vars

NextShim == Call(ShimWorld) \/ CallPatch \/ Step \/ StepFixListeners

SpecShim == Init /\ [][NextShim]_vars

NextLifecycle == Call(LifecycleWorld) \/ Step

SpecLifecycle == Init /\ [][NextLifecycle]_vars

SpecLeak == Init /\ [][NextLeak]_vars

SpecRegistry == Init /\ [][NextRegistry]_vars

SpecSingle == Init /\ [][NextSingle]_vars

SpecList == Init /\ [][NextList]_vars

----------------------------------------------------------------------------
(* The properties.  They are stated over the caller's calls: `call` is the *)
(* call, with the interceptors (chain) and the caller's listeners (lsn)    *)
(* of the event it emits first as they were when it started; `log` is      *)
(* what it has done so far; `rv` is what it returned or threw once the     *)
(* stack is empty again.                                                   *)

Settled == stack = <<>>

EmitEntry(type, args) == Entry("emit", type, "", args)

\* The log entries of listeners ls called in order with args.
ListenerEntries(type, ls, args) ==
    [i \in 1..Len(ls) |-> Entry("listener", type, ls[i], args)]

LifecycleNames == {"newListener", "removeListener"}

\* What the unmodified Base Emitter's emit does for listeners ls: it
\* throws on an "error" without listeners, else it tells whether there
\* was a listener.
BaseResult(type, ls) ==
    IF ls # <<>> THEN "true"
    ELSE IF type = "error" THEN Unhandled
    ELSE "false"

\* C1, as stated: an emit of an event without interceptors calls the
\* caller's listeners of the event in order with the arguments of the
\* emit, and returns what the Base Emitter's emit would return for these
\* listeners, for every event name.
PassThroughEveryName ==
    (Settled /\ call.op = "emit" /\ call.chain = <<>>) =>
        /\ log = <<EmitEntry(call.type, CallArgs)>> \o
                     ListenerEntries(call.type, call.lsn, CallArgs)
        /\ rv = BaseResult(call.type, call.lsn)

\* C1, amended: an emit of an event without interceptors calls the
\* caller's listeners of the event in order with the arguments of the
\* emit; it returns what the Base Emitter's emit would return for these
\* listeners, except that it returns true for "newListener" and
\* "removeListener" also when the caller has no listener, since the
\* shim's own listener is registered for these two names.
PassThrough ==
    (Settled /\ call.op = "emit" /\ call.chain = <<>>) =>
        /\ log = <<EmitEntry(call.type, CallArgs)>> \o
                     ListenerEntries(call.type, call.lsn, CallArgs)
        /\ rv = IF call.type \in LifecycleNames /\ fakeFunction \in
                                {_events[call.type][i] : i \in DOMAIN _events[call.type]}
                THEN "true"
                ELSE BaseResult(call.type, call.lsn)

\* Two listeners have been called in the order of their registration.
PassThroughWitness ==
    /\ Settled /\ call.op = "emit" /\ call.type = "test"
    /\ call.chain = <<>> /\ call.lsn = <<"spy2", "spy">>
    /\ Len(log) = 3 /\ rv = "true"

\* Interceptors that call their continuation once, without an error.
Continuing == {"iRet", "iCont"}

AllContinue(chain) == \A i \in 1..Len(chain) : chain[i] \in Continuing

\* What the interceptors before position i of a chain make of args.
Threaded(chain, i, args) == args \o SubSeq(chain, 1, i - 1)

\* The log entries of the first n interceptors of a chain, each called
\* with what the one before handed on.
InterceptorEntries(type, chain, n, args) ==
    [i \in 1..n |-> Entry("interceptor", type, chain[i], Threaded(chain, i, args))]

\* C2: an emit of an event whose interceptors all call their continuation
\* once without an error runs the interceptors in the order of their
\* registration, the first with the arguments of the emit and each later
\* one with the arguments the one before handed on, and then the
\* listeners of the event with the arguments the last one handed on.
Threading ==
    (Settled /\ call.op = "emit" /\ call.chain # <<>> /\ AllContinue(call.chain)) =>
        log = <<EmitEntry(call.type, CallArgs)>> \o
              InterceptorEntries(call.type, call.chain, Len(call.chain), CallArgs) \o
              ListenerEntries(call.type, call.lsn,
                              Threaded(call.chain, Len(call.chain) + 1, CallArgs))

\* Two different interceptors have run, then a listener with the marks of
\* both.
ThreadingWitness ==
    /\ Settled /\ call.op = "emit" /\ call.chain = <<"iRet", "iCont">>
    /\ call.lsn = <<"spy">>
    /\ Len(log) = 4
    /\ log[4] = Entry("listener", "test", "spy", <<"value", "iRet", "iCont">>)

\* C3, as stated: an emit of an event whose interceptors all call their
\* continuation without an error returns true when the event has a
\* listener and false when it has none, whatever the interceptors
\* return.
ReturnsWhetherListened ==
    (Settled /\ call.op = "emit" /\ call.chain # <<>> /\ AllContinue(call.chain)) =>
        rv = IF call.lsn # <<>> THEN "true" ELSE "false"

\* The position of the first interceptor of a chain that passes an error,
\* 0 when none does.
FirstError(chain) ==
    IF \E i \in 1..Len(chain) : chain[i] = "iErr"
    THEN Min({i \in 1..Len(chain) : chain[i] = "iErr"})
    ELSE 0

\* C4: when an interceptor of an emit of E calls its continuation with a
\* truthy first argument, no later interceptor of E and no listener of E
\* runs, and "error" is emitted with that argument: the emit has run the
\* interceptors up to this one, then the emit of "error" and the
\* listeners of "error", and nothing else.
AbortOnError ==
    (Settled /\ call.op = "emit" /\ call.type # "error" /\ FirstError(call.chain) # 0) =>
        /\ log = <<EmitEntry(call.type, CallArgs)>> \o
                 InterceptorEntries(call.type, call.chain, FirstError(call.chain),
                                    CallArgs) \o
                 <<EmitEntry("error", <<"boom">>)>> \o
                 ListenerEntries("error", CallerListenersOf("error"), <<"boom">>)
        /\ \A i \in 1..Len(log) : ~(log[i].k = "listener" /\ log[i].type = call.type)
        /\ rv = IF CallerListenersOf("error") = <<>> THEN Unhandled ELSE Undefined

\* An interceptor has passed an error; the interceptor after it and the
\* listener of the event have not run, a listener of "error" has.
AbortOnErrorWitness ==
    /\ Settled /\ call.op = "emit" /\ call.type = "test"
    /\ call.chain = <<"iErr", "iRet">> /\ call.lsn = <<"spy">>
    /\ CallerListenersOf("error") = <<"spy2">>
    /\ log[Len(log)] = Entry("listener", "error", "spy2", <<"boom">>)

\* C5: after any sequence of calls of intercept and removeInterceptor,
\* interceptors(E) is the sequence of the functions registered for E and
\* not removed since, in the order of their registration; when there is
\* none, it is empty and E is not a key of the registry.
ListsAreRegistrations ==
    \A k \in Keys :
        /\ interceptors(k) = registered[k]
        /\ registered[k] = <<>> => Lookup(_interceptors, k) = 0

\* Of two functions registered for an event, one has been removed: the
\* other one is left.
ListsAreRegistrationsWitness ==
    /\ Settled /\ call.op = "removeInterceptor" /\ call.type = "test"
    /\ call.list = <<"iSilent", "iCont">> /\ call.fn = "iSilent"
    /\ interceptors("test") = <<"iCont">>
    /\ registered["test"] = <<"iCont">>

\* C6: in every state, between calls and within them, no key of the
\* registry holds an empty list, no key is held twice, and an event name
\* is a key exactly when interceptors of it are registered.
NoEmptyLists ==
    /\ \A i \in 1..Len(_interceptors) : heap[_interceptors[i].id].items # <<>>
    /\ \A i, j \in 1..Len(_interceptors) :
           _interceptors[i].key = _interceptors[j].key => i = j
    /\ \A k \in Keys : Lookup(_interceptors, k) # 0 <=> interceptors(k) # <<>>

\* While the caller registers an interceptor for one event, a listener
\* has removed the last interceptor of another one: its key has left the
\* registry within the call.
NoEmptyListsWitness ==
    /\ stack # <<>> /\ call.op = "intercept" /\ call.type = "newInterceptor"
    /\ \E i \in 1..Len(log) : log[i] = Entry("listener", "newInterceptor", "remover",
                                               <<"newInterceptor", call.fn>>)
    /\ \E i \in 1..Len(log) : log[i] = EmitEntry("removeInterceptor", <<"test", "iCont">>)
    /\ call.list = <<>> /\ Lookup(_interceptors, "test") = 0

\* The list of a key in a registry reg with arrays h.
ListOf(reg, h, type) ==
    IF Lookup(reg, type) = 0 THEN <<>> ELSE h[Lookup(reg, type)].items

Occurs(list, f) == \E i \in 1..Len(list) : list[i] = f

\* What a step has added to the log.
Logged ==
    IF stack = <<>> THEN log' ELSE SubSeq(log', Len(log) + 1, Len(log'))

\* The statement the function on top of the stack executes next, if any.
AtStatement(op) ==
    /\ Running("call")
    /\ LET fr == stack[Len(stack)]
           body == Body(fr.fn)
       IN  /\ fr.n < Len(body)
           /\ ~(fr.n > 0 /\ body[fr.n].ret)
           /\ body[fr.n + 1].op = op

NextStatement == Body(stack[Len(stack)].fn)[stack[Len(stack)].n + 1]

\* C7: removeInterceptor(E, fn) with a function fn that is not registered
\* for E, because E has no list or because fn is not in it, leaves the
\* registry as it is, emits nothing and returns the emitter, when the
\* caller calls it and when a listener calls it.
NoOpRemoval ==
    [][/\ (/\ stack = <<>> /\ call'.op = "removeInterceptor"
           /\ call'.fn \in Functions /\ ~Occurs(call'.list, call'.fn)) =>
              /\ UNCHANGED <<_interceptors, heap>>
              /\ log' = <<>> /\ rv' = This /\ stack' = <<>>
       /\ (/\ AtStatement("removeInterceptor")
           /\ ~Occurs(interceptors(NextStatement.type), NextStatement.fn)) =>
              /\ UNCHANGED <<_interceptors, heap>>
              /\ log' = log /\ rv' = This /\ Len(stack') = Len(stack)
      ]_vars

\* A function has been asked to be removed from a list that holds another
\* one only.
NoOpRemovalWitness ==
    /\ Settled /\ call.op = "removeInterceptor" /\ call.type = "test"
    /\ call.fn = "iSilent" /\ call.list = <<"iCont">>
    /\ interceptors("test") = <<"iCont">>
    /\ log = <<>> /\ rv = This

\* The position of the registration of f in list that was made last.
MostRecent(list, f) ==
    CHOOSE i \in 1..Len(list) : list[i] = f /\ \A j \in (i + 1)..Len(list) : list[j] # f

WithoutMostRecent(list, f) ==
    SubSeq(list, 1, MostRecent(list, f) - 1) \o
    SubSeq(list, MostRecent(list, f) + 1, Len(list))

\* C8: removeInterceptor(E, fn) with fn registered for E takes the most
\* recent registration of fn out of the list and leaves the others in
\* their order; the list is already without it when "removeInterceptor"
\* is emitted with (E, fn) and delivered, and it is emitted once.
RemovesMostRecent ==
    [][/\ (/\ stack = <<>> /\ call'.op = "removeInterceptor"
           /\ Occurs(call'.list, call'.fn)) =>
              /\ ListOf(_interceptors', heap', call'.type) = WithoutMostRecent(call'.list, call'.fn)
              /\ log' # <<>>
              /\ log'[1] = EmitEntry("removeInterceptor", <<call'.type, call'.fn>>)
       /\ (/\ stack' = <<>> /\ call'.op = "removeInterceptor"
           /\ Occurs(call'.list, call'.fn)) =>
              /\ ListOf(_interceptors', heap', call'.type) = WithoutMostRecent(call'.list, call'.fn)
              /\ Cardinality({i \in 1..Len(log') : log'[i].k = "emit"}) = 1
              /\ rv' = This
      ]_vars

\* Of a function registered twice around another one, the later
\* registration has been removed, and a listener has been told.
RemovesMostRecentWitness ==
    /\ Settled /\ call.op = "removeInterceptor" /\ call.type = "test"
    /\ call.fn = "iCont" /\ call.list = <<"iCont", "iSilent", "iCont">>
    /\ interceptors("test") = <<"iCont", "iSilent">>
    /\ log = <<EmitEntry("removeInterceptor", <<"test", "iCont">>),
               Entry("listener", "removeInterceptor", "spy", <<"test", "iCont">>)>>

\* C9: intercept(E, fn) emits "newInterceptor" with (E, fn) once, with the
\* list of E as it was: an interceptor that runs for this emission was
\* registered for "newInterceptor" before.  When the emission has
\* returned, fn is appended, nothing more is emitted, and the emitter is
\* returned.
NewInterceptorBeforeAppend ==
    [][/\ (Len(stack') > Len(stack) /\ stack'[Len(stack) + 1].k = "intercept") =>
              LET fr == stack'[Len(stack) + 1]
              IN  /\ ListOf(_interceptors', heap', fr.type) = interceptors(fr.type)
                  /\ Logged # <<>>
                  /\ Logged[1] = EmitEntry("newInterceptor", <<fr.type, fr.fn>>)
                  /\ Cardinality({i \in 1..Len(Logged) : Logged[i].k = "emit"}) = 1
                  /\ \A i \in 1..Len(Logged) :
                         Logged[i].k = "interceptor" =>
                             /\ interceptors("newInterceptor") # <<>>
                             /\ Logged[i].fn = interceptors("newInterceptor")[1]
       /\ Running("intercept") =>
              LET fr == stack[Len(stack)]
              IN  /\ ListOf(_interceptors', heap', fr.type) = Append(interceptors(fr.type), fr.fn)
                  /\ \A i \in 1..Len(Logged) : Logged[i].k # "emit"
                  /\ rv' = This
      ]_vars

\* The first interceptor of "newInterceptor" is being registered: its
\* "newInterceptor" is with a listener, and the list is still empty.
NewInterceptorBeforeAppendWitness ==
    /\ call.op = "intercept" /\ call.type = "newInterceptor"
    /\ call.fn = "iSilent" /\ call.list = <<>>
    /\ Running("call") /\ stack[1].k = "intercept"
    /\ log = <<EmitEntry("newInterceptor", <<"newInterceptor", "iSilent">>),
               Entry("listener", "newInterceptor", "remover",
                     <<"newInterceptor", "iSilent">>)>>
    /\ interceptors("newInterceptor") = <<>>

\* C10: intercept(E, x) and removeInterceptor(E, x) with an x that is not
\* a function, and setMaxInterceptors(n) with an n that is not a number,
\* is negative or is NaN, throw a TypeError, leave the registry, the
\* warned flags and the ceiling as they are, and emit nothing.
InvalidArgumentsFail ==
    [][(/\ stack = <<>>
        /\ \/ call'.op \in {"intercept", "removeInterceptor"} /\ call'.fn = NotAFunction
           \/ call'.op = "setMaxInterceptors" /\ call'.fn \in {"'1'", "NaN", "-1"}) =>
           /\ rv' = TypeError /\ stack' = <<>> /\ log' = <<>>
           /\ UNCHANGED <<_interceptors, heap, _maxInterceptors, _events>>
      ]_vars

\* A negative ceiling has been refused: the ceiling set before and the
\* warned flag of a list are still there.
InvalidArgumentsFailWitness ==
    /\ Settled /\ call.op = "setMaxInterceptors" /\ call.fn = "-1"
    /\ rv = TypeError /\ log = <<>>
    /\ _maxInterceptors = <<1>>
    /\ \E i \in 1..Len(_interceptors) : heap[_interceptors[i].id].warned

\* The ceiling in force.
Ceiling ==
    IF _maxInterceptors = <<>> THEN defaultMaxInterceptors ELSE _maxInterceptors[1]

Warnings == Cardinality({i \in 1..Len(log) : log[i].k = "warning"})

\* C11: when interceptors are registered one after another for an event
\* that had none, under a ceiling m, the registration that makes the list
\* m + 1 long emits one warning and no other registration emits any, so
\* that there is no warning up to m and one in total beyond; a ceiling of
\* 0 never warns; every registration appends the function and returns
\* the emitter.
LeakWarning ==
    (Settled /\ call.op = "intercept" /\ call.fn \in Functions) =>
        /\ interceptors(call.type) = Append(call.list, call.fn)
        /\ rv = This
        /\ Warnings = IF Ceiling > 0 /\ Len(interceptors(call.type)) = Ceiling + 1
                      THEN 1 ELSE 0

\* The eleventh registration under the default ceiling has warned.
LeakWarningWitness ==
    /\ Settled /\ call.op = "intercept" /\ _maxInterceptors = <<>>
    /\ Len(interceptors("test")) = defaultMaxInterceptors + 1
    /\ Warnings = 1

\* C12: after removeAllInterceptors() without an argument, from any
\* state, the registry is empty and interceptors(E) is empty for every
\* event name E; a call of removeAllInterceptors() in a state it has
\* left, the registry being empty, emits nothing, runs nothing and leaves
\* the registry empty.
ClearsEveryList ==
    (Settled /\ call.op = "removeAllInterceptors" /\ call.fn = "") =>
        /\ rv = This
        /\ _interceptors = <<>>
        /\ \A k \in Keys : interceptors(k) = <<>>
        /\ call.all = <<>> => log = <<>>

ClearsEveryListWitness ==
    /\ Settled /\ call.op = "removeAllInterceptors" /\ call.fn = ""
    /\ Len(call.all) = 3
    /\ log # <<>>
    /\ \A k \in Keys : interceptors(k) = <<>>

\* The emits of a log, in order.
Emits == SelectSeq(log, LAMBDA e : e.k = "emit")

\* The notifications of the removal of every entry of list, last first.
RemovalsLIFO(type, list) ==
    [i \in 1..Len(list) |->
        EmitEntry("removeInterceptor", <<type, list[Len(list) + 1 - i]>>)]

\* C13: removeAllInterceptors(E) emits "removeInterceptor" once for every
\* interceptor registered for E, with (E, the interceptor), the last
\* registered first, and emits nothing when E has none.
ClearEmitsLIFO ==
    (Settled /\ call.op = "removeAllInterceptors" /\ call.fn = "type") =>
        Emits = RemovalsLIFO(call.type, call.list)

ClearEmitsLIFOWitness ==
    /\ Settled /\ call.op = "removeAllInterceptors" /\ call.type = "test"
    /\ call.list = <<"iCont", "iSilent">>
    /\ Emits = <<EmitEntry("removeInterceptor", <<"test", "iSilent">>),
                 EmitEntry("removeInterceptor", <<"test", "iCont">>)>>

\* C14: during removeAllInterceptors(E) the interceptor lists
\* of all event names but E, the ceiling and the listeners stay as they
\* are, and when E has no interceptors the whole registry stays as it is.
ClearOfOneEvent ==
    [][(call'.op = "removeAllInterceptors" /\ call'.fn = "type") =>
           /\ \A k \in Keys \ {call'.type} :
                  ListOf(_interceptors', heap', k) = interceptors(k)
           /\ UNCHANGED <<_maxInterceptors, _events>>
           /\ call'.list = <<>> => UNCHANGED <<_interceptors, heap>>
      ]_vars

ClearOfOneEventWitness ==
    /\ Settled /\ call.op = "removeAllInterceptors" /\ call.fn = "type"
    /\ call.list # <<>>
    /\ interceptors(call.type) = <<>>
    /\ Len(_interceptors) = 2

\* The first interceptor of a chain that does not call its continuation,
\* or 0.
FirstStop(chain) ==
    IF AllContinue(chain) THEN 0
    ELSE Min({i \in 1..Len(chain) : chain[i] \notin Continuing})

\* What an emit of type with args does when none of its interceptors
\* fails: the interceptors up to the first one that stops, and the
\* listeners if none stops.
EmitLog(type, chain, lsn, args) ==
    <<EmitEntry(type, args)>> \o
    (IF FirstStop(chain) = 0
     THEN InterceptorEntries(type, chain, Len(chain), args) \o
          ListenerEntries(type, lsn, Threaded(chain, Len(chain) + 1, args))
     ELSE InterceptorEntries(type, chain, FirstStop(chain), args))

RECURSIVE Flatten(_)
Flatten(ss) == IF ss = <<>> THEN <<>> ELSE Head(ss) \o Flatten(Tail(ss))

ListIn(all, key) ==
    IF \E i \in 1..Len(all) : all[i].key = key
    THEN all[CHOOSE i \in 1..Len(all) : all[i].key = key].list
    ELSE <<>>

\* The removals of a list from its end, each notified to the interceptors
\* ri and the listeners lsn of "removeInterceptor".
NotifiedLIFO(key, list, ri, lsn) ==
    Flatten([i \in 1..Len(list) |->
                EmitLog("removeInterceptor", ri, lsn, <<key, list[Len(list) + 1 - i]>>)])

\* The removals of the list of "removeInterceptor" itself from its end,
\* each notified to what is left of the list.
OwnLIFO(ri, lsn) ==
    Flatten([i \in 1..Len(ri) |->
                EmitLog("removeInterceptor", SubSeq(ri, 1, Len(ri) - i), lsn,
                        <<"removeInterceptor", ri[Len(ri) + 1 - i]>>)])

Others(all) == SelectSeq(all, LAMBDA e : e.key # "removeInterceptor")

RunsOf(f) == Cardinality({i \in 1..Len(log) : log[i].k \in {"interceptor", "listener"} /\ log[i].fn = f})

CallerRegistered(type) == SelectSeq(_events[type], LAMBDA f : f # fakeFunction)

\* C16: in every state the shim's fakeFunction is in the Base Emitter's
\* lists of "newListener" and of "removeListener", and listeners(L) of
\* these two names is the caller's listeners of L in the order of their
\* registration: on(L, h) has appended h to it, removeListener(L, h) has
\* taken the most recent h from it, and a patch has left it as it was;
\* listeners(name) of every other name is the Base Emitter's list.
ShimInvariant ==
    /\ \A L \in LifecycleNames :
          /\ Occurs(_events[L], fakeFunction)
          /\ listeners(L) = CallerRegistered(L)
    /\ \A name \in (DOMAIN _events) \ LifecycleNames : listeners(name) = _events[name]
    /\ (Settled /\ call.op = "on" /\ call.type = "newListener") =>
           listeners("newListener") = Append(call.lsn, call.fn)
    /\ (Settled /\ call.op = "removeListener" /\ call.type = "removeListener") =>
           listeners("removeListener") = Unregister(call.lsn, call.fn)
    /\ (Settled /\ call.op = "patch") => listeners("newListener") = call.lsn

ShimInvariantWitness ==
    /\ Settled /\ patched = 2
    /\ _events["newListener"] = <<fakeFunction, "spy", fakeFunction, "spy2">>
    /\ listeners("newListener") = <<"spy", "spy2">>
    /\ listeners("removeListener") = <<>>

\* C17: on(E, h) emits "newListener" once, with E and h, to the
\* interceptors of "newListener" and, if they all continue, to the
\* listeners "newListener" had before the call; removeListener(E, h) that
\* finds h among the listeners of E emits "removeListener" once, with E
\* and h, to the interceptors of "removeListener" and, if they all
\* continue, to the listeners "removeListener" has after the removal.
\* Both do so with and without listeners of the caller for these two
\* events, and neither does anything else: h is not called for its own
\* registration or removal.
LifecycleNotified ==
    /\ (Settled /\ call.op = "on") =>
           /\ log = EmitLog("newListener", call.chain, call.lsn, <<call.type, call.fn>>)
           /\ rv = This
    /\ (Settled /\ call.op = "removeListener" /\ Occurs(call.had, call.fn)) =>
           /\ log = EmitLog("removeListener", call.chain,
                            IF call.type = "removeListener"
                            THEN Unregister(call.lsn, call.fn) ELSE call.lsn,
                            <<call.type, call.fn>>)
           /\ rv = This

LifecycleNotifiedWitness ==
    /\ Settled /\ call.op = "removeListener" /\ call.type = "test"
    /\ call.had = <<"spy">> /\ call.lsn = <<>>
    /\ call.chain = <<"iCont", "iSilent">>
    /\ log = <<EmitEntry("removeListener", <<"test", "spy">>),
               Entry("interceptor", "removeListener", "iCont", <<"test", "spy">>),
               Entry("interceptor", "removeListener", "iSilent", <<"test", "spy", "iCont">>)>>
    /\ CallerListeners = 0

\* C18: a patch of this emitter assigns nothing on another emitter of the
\* same type: in every state the other emitter has no property of its own
\* (no emit or listeners of the engine, no registry), no fakeFunction
\* among its listeners, listeners(name) as the Base Emitter gives it, and
\* an emit on it has called its own listeners in order with the arguments
\* of the emit and returned what the Base Emitter returns, and has run
\* nothing else, whatever interceptors this emitter has for the event.
OtherUnaffected ==
    /\ other.own = {}
    /\ \A name \in DOMAIN other.events :
          /\ ~Occurs(other.events[name], fakeFunction)
          /\ otherListeners(name) = other.events[name]
    /\ (Settled /\ call.op = "other.emit") =>
           /\ log = ListenerEntries(call.type, call.lsn, CallArgs)
           /\ rv = BaseResult(call.type, call.lsn)

OtherUnaffectedWitness ==
    /\ Settled /\ call.op = "other.emit" /\ call.type = "test"
    /\ patched = 2
    /\ call.chain = <<"iSilent">>
    /\ call.lsn = <<"spy">>
    /\ log = ListenerEntries("test", <<"spy">>, CallArgs)
    /\ rv = "true"

\* C19: no step of a patch of the emitter, already augmented, changes the
\* registry (the keys in their order, each list with its entries in
\* their order and its warned flag) or the ceiling.
PatchKeepsState ==
    [][call'.op = "patch" => UNCHANGED <<_interceptors, heap, _maxInterceptors>>]_vars

PatchKeepsStateWitness ==
    /\ Settled /\ call.op = "patch" /\ patched = 2
    /\ _maxInterceptors = <<1>>
    /\ Len(_interceptors) = 1
    /\ interceptors("test") = <<"iCont", "iSilent">>
    /\ heap[1].warned

\* C20, as stated: an emit of E whose chain is aborted by an interceptor
\* that calls its continuation with a truthy first argument, while
\* "error" has a listener, returns false.
AbortReturnsFalse ==
    (/\ Settled /\ call.op = "emit" /\ call.type # "error"
     /\ FirstError(call.chain) # 0
     /\ CallerListenersOf("error") # <<>>) =>
        rv = "false"

\* The first interceptor of a chain that never calls its continuation, or
\* 0.
FirstSilent(chain) ==
    IF \E i \in 1..Len(chain) : chain[i] = "iSilent"
    THEN Min({i \in 1..Len(chain) : chain[i] = "iSilent"})
    ELSE 0

\* C21: an emit of E in whose chain an interceptor returns without
\* calling its continuation, the interceptors before it continuing, has
\* run the interceptors up to this one and nothing else (no later
\* interceptor, no listener of E, no emit of "error"), and has returned
\* to its caller without an exception.
SilenceStalls ==
    (/\ Settled /\ call.op = "emit"
     /\ FirstSilent(call.chain) # 0
     /\ AllContinue(SubSeq(call.chain, 1, FirstSilent(call.chain) - 1))) =>
        /\ log = <<EmitEntry(call.type, CallArgs)>> \o
                 InterceptorEntries(call.type, call.chain, FirstSilent(call.chain),
                                    CallArgs)
        /\ rv = Undefined

SilenceStallsWitness ==
    /\ Settled /\ call.op = "emit" /\ call.type = "test"
    /\ call.chain = <<"iCont", "iSilent", "iRet">>
    /\ call.lsn = <<"spy">>
    /\ CallerListenersOf("error") = <<"spy">>
    /\ Len(log) = 3
    /\ log[3] = Entry("interceptor", "test", "iSilent", <<"value", "iCont">>)

\* The event an interceptor emits from inside an emission with args, or
\* none.
Inner(f, args) ==
    IF args[1] # "value" THEN ""
    ELSE IF f = "iEmit" THEN "newTest"
    ELSE IF f = "iAgain" THEN "test"
    ELSE ""

\* The log of an emission that runs its own chain from interceptor i on
\* with args, each interceptor's inner emission complete before the next
\* interceptor of the outer one, and then its listeners.
RECURSIVE ChainLog(_, _, _)
ChainLog(type, i, args) ==
    LET chain == ListOf(_interceptors, heap, type)
    IN  IF i > Len(chain) THEN ListenerEntries(type, CallerListenersOf(type), args)
        ELSE <<Entry("interceptor", type, chain[i], args)>> \o
             (IF Inner(chain[i], args) = "" THEN <<>>
              ELSE <<EmitEntry(Inner(chain[i], args), <<chain[i]>>)>> \o
                   ChainLog(Inner(chain[i], args), 1, <<chain[i]>>)) \o
             ChainLog(type, i + 1, Out(chain[i], args))

\* C22: an emit issued from inside an interceptor, for another event or
\* for the same one, runs its own chain from the first interceptor with
\* its own arguments and has called its listeners before the outer
\* interceptor goes on; the outer chain then continues from its own
\* position with its own arguments.
Reentrant ==
    (Settled /\ call.op = "emit") =>
        log = <<EmitEntry(call.type, CallArgs)>> \o ChainLog(call.type, 1, CallArgs)

\* An interceptor between two others has emitted its own event, whose
\* chain and listener have run, and the outer chain has gone on.
ReentrantWitness ==
    /\ Settled /\ call.op = "emit" /\ call.type = "test"
    /\ call.chain = <<"iAgain", "iCont">>
    /\ call.lsn = <<"spy">>
    /\ Len(log) = 8
    /\ log[3] = EmitEntry("test", <<"iAgain">>)
    /\ log[6] = Entry("listener", "test", "spy", <<"iAgain", "iAgain", "iCont">>)
    /\ log[7] = Entry("interceptor", "test", "iCont", <<"value", "iAgain">>)

\* C23: for one event, between two moments at which it has no
\* interceptors, at most one leak warning is emitted, however intercept,
\* removeInterceptor and setMaxInterceptors interleave; and every
\* registration that leaves the list longer than a positive ceiling finds
\* a warning emitted since the list was last empty, so that a list that
\* has been emptied warns anew.
WarnsOncePerList ==
    /\ \A k \in Keys : WarningsOf(warnings, k).now <= 1
    /\ (/\ Settled /\ call.op = "intercept" /\ rv = This
        /\ Ceiling > 0
        /\ Len(ListOf(_interceptors, heap, call.type)) > Ceiling) =>
            WarningsOf(warnings, call.type).now = 1

\* A list has warned, has been emptied, and its successor warns in the
\* registration that has just returned.
WarnsOncePerListWitness ==
    /\ Settled /\ call.op = "intercept" /\ rv = This
    /\ WarningsOf(warnings, "test").past = 1
    /\ WarningsOf(warnings, "test").now = 1
    /\ Warnings = 1

\* C24: for every event name k, string or symbol, the calls address one
\* list: an emit of k runs the first interceptor that interceptors(k)
\* shows, removeAllInterceptors(k) leaves interceptors(k) empty, and
\* removeAllInterceptors() leaves interceptors(k) empty for every k.
SameListForEveryKey ==
    /\ (Settled /\ call.op = "emit" /\ call.list # <<>>) =>
            /\ Len(log) >= 2
            /\ log[2] = Entry("interceptor", call.type, call.list[1], CallArgs)
    /\ (Settled /\ call.op = "removeAllInterceptors" /\ call.fn = "type") =>
            ListOf(_interceptors, heap, call.type) = <<>>
    /\ (Settled /\ call.op = "removeAllInterceptors" /\ call.fn = "") =>
            \A k \in Keys : ListOf(_interceptors, heap, k) = <<>>

\* The functions of the log entries of kind k, in order.
FunctionsLogged(k) ==
    LET es == SelectSeq(log, LAMBDA e : e.k = k)
    IN  [i \in 1..Len(es) |-> es[i].fn]

\* C25: an emit of E in whose chain one interceptor removes itself and
\* then continues, the others continuing, has invoked every interceptor
\* of the chain once in registration order, the ones registered after
\* the leaving one included, and the listeners of E after them.
NoneSkipped ==
    (/\ Settled /\ call.op = "emit"
     /\ Cardinality({i \in 1..Len(call.chain) : call.chain[i] = "iLeave"}) = 1) =>
        /\ FunctionsLogged("interceptor") = call.chain
        /\ FunctionsLogged("listener") = call.lsn
        /\ call.lsn # <<>> => log[Len(log)].k = "listener"

\* C26: whenever an emit of E with interceptors, all of which continue
\* without an error, once or twice, calls a listener of E, the listener
\* receives the arguments of the emit as every interceptor of the chain
\* in turn has handed them on, the last registered one last.
ListenersBehindChain ==
    (Settled /\ call.op = "emit" /\ call.chain # <<>>) =>
        \A i \in 1..Len(log) :
            (log[i].k = "listener" /\ log[i].type = call.type) =>
                log[i].args = CallArgs \o call.chain

\* C27: every emit call returns after finitely many steps, whatever the
\* registry holds, when interceptors and listeners call their
\* continuation at most once and make no emit or registry call, also
\* when an interceptor of "error" passes an error to its continuation:
\* the call is over at some time, and it has not ended by exhausting the
\* call stack.
EmitReturns ==
    /\ [](call.op = "emit" => <>Settled)
    /\ []((Settled /\ call.op = "emit") => rv # RangeError)

\* C28: on an emitter that has been patched again, an emit of E whose
\* interceptors all continue has invoked each interceptor of the chain
\* once, in order, and each listener of E once, and listeners of
\* "newListener" and of "removeListener" are the caller's listeners.
PatchIdempotent ==
    /\ (Settled /\ call.op = "emit" /\ patched > 1 /\ AllContinue(call.chain)) =>
            /\ FunctionsLogged("interceptor") = call.chain
            /\ FunctionsLogged("listener") = call.lsn
    /\ patched > 1 =>
            \A L \in LifecycleNames : listeners(L) = CallerRegistered(L)

\* The emissions of "removeInterceptor" for the event k that a step makes.
Announced(k) ==
    SelectSeq(Logged, LAMBDA e : /\ e.k = "emit" /\ e.type = "removeInterceptor"
                                 /\ e.args[1] = k)

\* C29: removeAllInterceptors, with or without an event name, never
\* raises, and whenever the list of an event loses interceptors it loses
\* one, a function of the list, and "removeInterceptor" is emitted once
\* with the event and that function; also while listeners of
\* "removeInterceptor" register or remove interceptors during a clear.
NoSilentRemoval ==
    /\ []((Settled /\ call.op = "removeAllInterceptors") => rv = This)
    /\ [][\A k \in Keys :
             LET before == ListOf(_interceptors, heap, k)
                 after == ListOf(_interceptors', heap', k)
             IN  Len(after) < Len(before) =>
                     /\ Len(after) = Len(before) - 1
                     /\ Len(Announced(k)) = 1
                     /\ Occurs(before, Announced(k)[1].args[2])]_vars

====
